---- MODULE Spec2Model ----
(***************************************************************************)
(* Model of src/app.py: the Streamlit resume analyzer.  One run of main()  *)
(* is one user interaction (Streamlit re-executes the script on every      *)
(* widget event).  The widgets' values (uploader, sidebar, button) are the *)
(* session state; the run's locals, the page and the temporary directory   *)
(* are the rest of the state.  Strings that the code takes apart           *)
(* (file names, paths, extensions) are sequences of one-character strings; *)
(* strings it only concatenates (prompts) are sequences of pieces.         *)
(***************************************************************************)
EXTENDS Naturals, Sequences, FiniteSets

VARIABLES
    uploaded,      \* value of st.file_uploader: <<>> or <<file>>
    settings,      \* values of the sidebar widgets
    clicked,       \* value st.button returns in the current run
    pc,            \* position of the script thread in main()
    file_path,     \* local of main(): path of the temporary file, <<>> for None
    file_name,     \* local of main(): uploaded_file.name
    ext,           \* local of main(): detected type
    input_data,    \* local of main(): extracted content
    i,             \* loop variable of analysis_progress()
    progress_bar,  \* st.progress element: its value, or Empty
    status_text,   \* st.empty element of analysis_progress()
    disk,          \* temporary directory: the paths of the files in it
    tmp_bytes,     \* bytes upload_section wrote at file_path in this run: <<>> or <<file>>
    page,          \* elements the run has put on the page
    stale_button,  \* the Analyze button an earlier run drew is still on screen
    calls,         \* arguments of model.generate_content in this run
    removes,       \* number of os.remove calls in this run
    exc,           \* exception in flight in the try block of the preview: <<>> or <<e>>
    analysis,      \* local of main(): the text analyze_with_gemini returned, <<>> before
    raised,        \* the exception analyze_with_gemini raised in this run: <<>> or <<e>>
    trace,         \* states of the interaction state machine visited in this run
    ref            \* an earlier interaction kept for comparison: <<>> or <<record>>

vars == <<uploaded, settings, clicked, pc, file_path, file_name, ext, input_data,
          i, progress_bar, status_text, disk, tmp_bytes, page, stale_button, calls, removes,
          exc, analysis, raised, trace, ref>>

----------------------------------------------------------------------------
(* Bounds and program constants *)

\* number of runs holding a temporary file that the user's widget events stop
MaxStopped == 1

\* range(100) in analysis_progress
ProgressSteps == 100

\* thresholds of the four status phases in analysis_progress
PhaseExtract == 20

PhaseStructure == 50

PhaseQuality == 80

----------------------------------------------------------------------------
(* Strings *)

UpperCase == <<"A","B","C","D","E","F","G","H","I","J","K","L","M",
               "N","O","P","Q","R","S","T","U","V","W","X","Y","Z">>

LowerCase == <<"a","b","c","d","e","f","g","h","i","j","k","l","m",
               "n","o","p","q","r","s","t","u","v","w","x","y","z">>

\* str.lower() on one character
LowerChar(c) ==
    IF \E k \in 1..Len(UpperCase) : UpperCase[k] = c
    THEN LowerCase[CHOOSE k \in 1..Len(UpperCase) : UpperCase[k] = c]
    ELSE c

\* str.lower()
Lower(s) == [k \in 1..Len(s) |-> LowerChar(s[k])]

\* s.split('.')[-1]: the text after the last '.', the whole string when there is none
SplitLast(s) ==
    LET dots == {k \in 1..Len(s) : s[k] = "."}
    IN  IF dots = {} THEN s
        ELSE LET last == CHOOSE k \in dots : \A m \in dots : m <= k
             IN  SubSeq(s, last + 1, Len(s))

PDF == <<"p","d","f">>

DOCX == <<"d","o","c","x">>

JPG == <<"j","p","g">>

JPEG == <<"j","p","e","g">>

PNG == <<"p","n","g">>

GIF == <<"g","i","f">>

\* type=[...] of st.file_uploader
UploaderTypes == {PDF, DOCX, JPG, JPEG, PNG}

\* the list the image branch of main() tests
ImageTypes == {JPG, JPEG, PNG}

----------------------------------------------------------------------------
(* Inputs *)

\* Python's None, and the empty placeholder of a page element
None == <<>>

\* an st.empty() placeholder, or an element after .empty()
Empty == <<>>

\* names a user can give the uploader: it accepts a name whose extension is,
\* case-insensitively, one of UploaderTypes
NamePdf == <<"c","v",".","p","d","f">>

NameDocx == <<"C","V",".","D","O","C","X">>

NameJpeg == <<"a",".","b",".","J","p","e","g">>

FileNames == {NamePdf, NameDocx, NameJpeg}

\* what filetype.guess finds in the bytes: None when no signature matches,
\* otherwise the extension of the matched type (any type the library knows)
Magics == {None, PDF, DOCX, JPG, PNG, GIF}

\* an uploaded file: its name, the signature of its bytes, and whether the
\* parser that main() selects for it raises on its bytes
File(n, m, c) == [name |-> n, magic |-> m, corrupt |-> c]

\* the files a user uploads: well-formed ones, ones whose bytes are not what the
\* name says, and damaged ones
Files ==
    { File(NamePdf, PDF, FALSE),     \* a PDF
      File(NamePdf, PDF, TRUE),      \* a truncated PDF
      File(NamePdf, None, FALSE),    \* a PDF with bytes before its header
      File(NamePdf, GIF, FALSE),     \* a GIF image renamed to .pdf
      File(NameDocx, DOCX, FALSE),   \* a DOCX
      File(NameDocx, None, TRUE),    \* text renamed to .DOCX
      File(NameJpeg, JPG, FALSE),    \* a JPEG
      File(NameJpeg, PNG, FALSE),    \* a PNG image renamed to .Jpeg
      File(NameJpeg, None, TRUE) }   \* text renamed to .Jpeg

Depths == {"Basic", "Standard", "Comprehensive"}

JobTitles == {<<>>, <<"SRE">>}

JobDescriptions == {<<>>, <<"Backend engineer">>}

Settings == [analysis_depth : Depths, ats_check : BOOLEAN, bias_check : BOOLEAN,
             job_title : JobTitles, job_description : JobDescriptions]

\* texts the remote model can answer with, and errors the call can raise
Responses == {"### Score: 80/100", ""}

RemoteErrors == {"quota exceeded"}

ExtractErrors == {"cannot open"}

----------------------------------------------------------------------------
(* Helper functions of app.py *)

\* tempfile.NamedTemporaryFile(delete=False, suffix=name).name: the temporary
\* directory, "tmp", a random part, and the suffix
TmpRandom == <<"0","1","2","3","4","5","6","7","8","9">>

TmpPath(id, name) == <<"/","t","m","p","/","t","m","p">> \o <<TmpRandom[id]>> \o name

\* a run finds at most MaxStopped files left by stopped runs
TmpIds == 1..(MaxStopped + 1)

\* the random parts that give a path not on disk; tempfile draws one of them, and
\* since nothing reads the random part they are interchangeable: the first is taken
FreeIds(name) == {id \in TmpIds : TmpPath(id, name) \notin disk}

FreshId(name) == CHOOSE id \in FreeIds(name) : \A other \in FreeIds(name) : id <= other

\* the bytes of the file at path. main() reads no file but the one its own
\* upload_section() wrote, so the bytes of that one file are all that is kept
BytesAt(path) == tmp_bytes[1]

\* filetype.guess(path): the signature found in the bytes at path
filetype_guess(path) == BytesAt(path).magic

\* a faulty variant of the detection: trusts the file name alone
detect_file_type_by_name(path) == Lower(SplitLast(path))

detect_file_type(path) ==
    LET kind == filetype_guess(path)
    IN  IF kind # None THEN kind ELSE Lower(SplitLast(path))

\* values of the job_description parameter: a string or None
Str(s) == [tag |-> "str", val |-> s]

NoneArg == [tag |-> "None", val |-> <<>>]

\* Python truthiness of such a value
Truthy(v) == v.tag = "str" /\ Len(v.val) > 0

\* the literal of lines 103-137, and the literal part of the f-string of line 140
BasePromptText == "You are an expert resume reviewer ... Format your response in beautiful Markdown with emojis for visual scanning."

JobSuffixText == "\n\nAdditionally, optimize this resume for the following job description:\n"

\* a faulty variant of the composition: the suffix is appended unconditionally
base_prompt_always_suffix(job_description) ==
    <<BasePromptText>> \o <<JobSuffixText>> \o job_description.val

\* base_prompt as analyze_with_gemini sends it
base_prompt(job_description) ==
    IF Truthy(job_description)
    THEN <<BasePromptText>> \o <<JobSuffixText>> \o job_description.val
    ELSE <<BasePromptText>>

\* the second argument main() passes to analyze_with_gemini
job_description_arg(s) ==
    IF Len(s.job_description) > 0 THEN Str(s.job_description) ELSE NoneArg

\* values of input_data
NoData == [kind |-> "None", by |-> "None"]

ImageData == [kind |-> "image", by |-> "Image.open.convert"]

PdfText == [kind |-> "text", by |-> "extract_text_from_pdf"]

DocxText == [kind |-> "text", by |-> "extract_text_from_docx"]

\* the status text of iteration k of analysis_progress
StatusFor(k) ==
    IF k < PhaseExtract THEN "Extracting text content..."
    ELSE IF k < PhaseStructure THEN "Analyzing resume structure..."
    ELSE IF k < PhaseQuality THEN "Evaluating content quality..."
    ELSE "Finalizing recommendations..."

\* the page before the run has drawn anything below the header
BlankPage ==
    [features |-> FALSE, title |-> <<>>, preview |-> "none", warning |-> FALSE,
     error |-> <<>>, button |-> FALSE, analysis |-> <<>>, download |-> <<>>,
     plan |-> FALSE, plan_info |-> FALSE, exception |-> <<>>]

DefaultSettings ==
    [analysis_depth |-> "Standard", ats_check |-> TRUE, bias_check |-> FALSE,
     job_title |-> <<>>, job_description |-> <<>>]

\* the directory after os.remove(path) of an existing path
Unlink(d, path) == d \ {path}

\* the directory after the creation of a file at path
CreateFile(d, path) == d \cup {path}

----------------------------------------------------------------------------
(* Initial state: the first load of the page, no widget touched *)

Init ==
    /\ uploaded = <<>>
    /\ settings = DefaultSettings
    /\ clicked = FALSE
    /\ pc = "sidebar"
    /\ file_path = None
    /\ file_name = None
    /\ ext = None
    /\ input_data = NoData
    /\ i = 0
    /\ progress_bar = Empty
    /\ status_text = Empty
    /\ disk = {}
    /\ tmp_bytes = <<>>
    /\ page = BlankPage
    /\ stale_button = FALSE
    /\ calls = <<>>
    /\ removes = 0
    /\ exc = <<>>
    /\ analysis = <<>>
    /\ raised = <<>>
    /\ trace = <<"Idle">>
    /\ ref = <<>>

----------------------------------------------------------------------------
(* Widget events: each one makes Streamlit run main() again from the top.    *)
(* An event that arrives while main() is running stops that run: the next    *)
(* st.* call of the script raises a script-control exception, which is not   *)
(* an Exception, so neither except clause of main() catches it, and main()   *)
(* is left there.  The statements between the event and that st.* call read  *)
(* and compute but leave nothing behind, so the event and the stop are one   *)
(* step.                                                                     *)

\* positions of main() with an st.* call ahead on every path: the sidebar and the
\* uploader (lines 153-221), st.columns and the title (276-291), st.image,
\* display_pdf, st.warning or the st.error of the handler (297-307), st.button
\* (312), the progress elements (231-249), the results box and spinner (315-327),
\* st.markdown, st.download_button or st.error after the remote call (333, 336,
\* 344), st.expander and st.info (347, 348).
\* Only line 355 has none: from there the run reaches its end.
StopPoints ==
    {"sidebar", "upload", "detect", "title", "extract", "show_image", "docx_warning",
     "except", "button", "progress_new", "progress_placeholder", "progress",
     "progress_text", "progress_clear", "progress_clear_bar", "analyze", "awaiting",
     "render", "download", "remote_except", "plan", "plan_info"}

\* The events the user makes while a run holds its temporary file are counted
\* by the files they leave: MaxStopped of them, then the user lets a run end.
Rerun ==
    /\ pc \in {"idle"} \cup StopPoints
    /\ file_path \in disk => Cardinality(disk) <= MaxStopped
    /\ pc' = "sidebar"
    /\ file_path' = None
    /\ file_name' = None
    /\ ext' = None
    /\ input_data' = NoData
    /\ i' = 0
    /\ progress_bar' = Empty
    /\ status_text' = Empty
    /\ page' = BlankPage
    /\ stale_button' = (stale_button \/ page.button)
    /\ calls' = <<>>
    /\ removes' = 0
    /\ exc' = <<>>
    /\ trace' = <<"Idle">>
    /\ analysis' = <<>>
    /\ raised' = <<>>
    /\ tmp_bytes' = <<>>
    /\ UNCHANGED <<disk, ref>>

\* the user puts a file in the uploader
UploadFile ==
    \E f \in Files :
        /\ Rerun
        /\ uploaded' = <<f>>
        /\ clicked' = FALSE
        /\ UNCHANGED settings

\* the user clears the uploader
ClearFile ==
    /\ uploaded # <<>>
    /\ Rerun
    /\ uploaded' = <<>>
    /\ clicked' = FALSE
    /\ UNCHANGED settings

\* the user changes one widget of the sidebar
SidebarInput ==
    \E s \in Settings :
        /\ Cardinality({k \in DOMAIN s : s[k] # settings[k]}) = 1
        /\ Rerun
        /\ settings' = s
        /\ clicked' = FALSE
        /\ UNCHANGED uploaded

\* the user presses the Analyze button: the one this run drew, or the one an
\* earlier run drew, which stays on screen until a run redraws it or ends
ClickAnalyze ==
    /\ page.button \/ stale_button
    /\ Rerun
    /\ clicked' = TRUE
    /\ UNCHANGED <<uploaded, settings>>

----------------------------------------------------------------------------
(* main(), one statement group per action *)

\* the variables of analysis_progress
progressVars == <<i, progress_bar, status_text>>

\* line 254: settings = sidebar()
Sidebar ==
    /\ pc = "sidebar"
    /\ pc' = "upload"
    /\ UNCHANGED <<stale_button, tmp_bytes, ref, raised, analysis, uploaded, settings, clicked, file_path, file_name, ext, input_data,
                   progressVars, disk, page, calls, removes, exc, trace>>

\* lines 223-227: upload_section() with a file in the uploader writes its
\* bytes to a new temporary file and returns the path and the name
UploadSectionFile ==
    /\ pc = "upload"
    /\ uploaded # <<>>
    /\ LET tmp_path == TmpPath(FreshId(uploaded[1].name), uploaded[1].name)
       IN  /\ disk' = CreateFile(disk, tmp_path)
           /\ file_path' = tmp_path
    /\ tmp_bytes' = <<uploaded[1]>>
    /\ file_name' = uploaded[1].name
    /\ trace' = Append(trace, "Previewing")
    /\ pc' = "detect"
    /\ UNCHANGED <<stale_button, ref, raised, analysis, uploaded, settings, clicked, ext, input_data,
                   progressVars, page, calls, removes, exc>>

\* line 228 and lines 357-392: no file, main() draws the feature panels
UploadSectionNone ==
    /\ stale_button' = FALSE
    /\ pc = "upload"
    /\ uploaded = <<>>
    /\ page' = [page EXCEPT !.features = TRUE]
    /\ pc' = "idle"
    /\ UNCHANGED <<tmp_bytes, ref, raised, analysis, uploaded, settings, clicked, file_path, file_name, ext, input_data,
                   progressVars, disk, calls, removes, exc, trace>>

\* lines 272-273: ext = detect_file_type(file_path), input_data = None
Detect ==
    /\ pc = "detect"
    /\ ext' = detect_file_type(file_path)
    /\ input_data' = NoData
    /\ pc' = "title"
    /\ UNCHANGED <<stale_button, tmp_bytes, ref, raised, analysis, uploaded, settings,
                   clicked, file_path, file_name, i, progress_bar, status_text, disk,
                   page, calls, removes, exc, trace>>

\* lines 276-291: st.columns, the preview box and the title with the file name
Title ==
    /\ pc = "title"
    /\ page' = [page EXCEPT !.title = file_name]
    /\ pc' = "extract"
    /\ UNCHANGED <<stale_button, tmp_bytes, ref, raised, analysis, uploaded, settings,
                   clicked, file_path, file_name, ext, input_data, i, progress_bar,
                   status_text, disk, calls, removes, exc, trace>>

\* lines 294-296: Image.open(...).convert("RGB") raises on bytes it cannot decode
PreviewImage ==
    /\ pc = "extract"
    /\ ext \in ImageTypes
    /\ IF BytesAt(file_path).corrupt
       THEN /\ \E e \in ExtractErrors : exc' = <<e>>
            /\ pc' = "except"
            /\ UNCHANGED input_data
       ELSE /\ input_data' = ImageData
            /\ pc' = "show_image"
            /\ UNCHANGED exc
    /\ UNCHANGED <<stale_button, tmp_bytes, ref, raised, analysis, uploaded, settings,
                   clicked, file_path, file_name, ext, i, progress_bar, status_text,
                   disk, page, calls, removes, trace>>

\* line 297: st.image(image)
ShowImage ==
    /\ pc = "show_image"
    /\ page' = [page EXCEPT !.preview = "image"]
    /\ pc' = "button"
    /\ UNCHANGED <<stale_button, tmp_bytes, ref, raised, analysis, uploaded, settings,
                   clicked, file_path, file_name, ext, input_data, i, progress_bar,
                   status_text, disk, calls, removes, exc, trace>>

\* lines 298-301: display_pdf embeds the raw bytes, then fitz.open may raise
PreviewPdf ==
    /\ pc = "extract"
    /\ ext \notin ImageTypes
    /\ ext = PDF
    /\ page' = [page EXCEPT !.preview = "pdf"]
    /\ IF BytesAt(file_path).corrupt
       THEN /\ \E e \in ExtractErrors : exc' = <<e>>
            /\ pc' = "except"
            /\ UNCHANGED input_data
       ELSE /\ input_data' = PdfText
            /\ pc' = "button"
            /\ UNCHANGED exc
    /\ UNCHANGED <<stale_button, tmp_bytes, ref, raised, analysis, uploaded, settings,
                   clicked, file_path, file_name, ext, i, progress_bar, status_text,
                   disk, calls, removes, trace>>

\* lines 302-304: docx.Document may raise
PreviewDocx ==
    /\ pc = "extract"
    /\ ext \notin ImageTypes
    /\ ext # PDF
    /\ ext = DOCX
    /\ IF BytesAt(file_path).corrupt
       THEN /\ \E e \in ExtractErrors : exc' = <<e>>
            /\ pc' = "except"
            /\ UNCHANGED input_data
       ELSE /\ input_data' = DocxText
            /\ pc' = "docx_warning"
            /\ UNCHANGED exc
    /\ UNCHANGED <<stale_button, tmp_bytes, ref, raised, analysis, uploaded, settings,
                   clicked, file_path, file_name, ext, i, progress_bar, status_text,
                   disk, page, calls, removes, trace>>

\* line 305: st.warning, the preview of a DOCX is not available
DocxWarning ==
    /\ pc = "docx_warning"
    /\ page' = [page EXCEPT !.warning = TRUE]
    /\ pc' = "button"
    /\ UNCHANGED <<stale_button, tmp_bytes, ref, raised, analysis, uploaded, settings,
                   clicked, file_path, file_name, ext, input_data, i, progress_bar,
                   status_text, disk, calls, removes, exc, trace>>

\* lines 294-305 when no branch of the if/elif chain matches: nothing runs
PreviewNoBranch ==
    /\ pc = "extract"
    /\ ext \notin ImageTypes
    /\ ext # PDF
    /\ ext # DOCX
    /\ pc' = "button"
    /\ UNCHANGED <<stale_button, tmp_bytes, ref, raised, analysis, uploaded, settings, clicked, file_path, file_name, ext, input_data,
                   progressVars, disk, page, calls, removes, exc, trace>>

\* lines 306-309: st.error, os.remove(file_path), return
ExceptHandler ==
    /\ stale_button' = FALSE
    /\ pc = "except"
    /\ exc' = <<>>
    /\ trace' = Append(trace, "Errored")
    /\ removes' = removes + 1
    /\ IF file_path \in disk
       THEN /\ disk' = Unlink(disk, file_path)
            /\ page' = [page EXCEPT !.error = <<"Error processing file: ", exc[1]>>]
       ELSE /\ page' = [page EXCEPT !.error = <<"Error processing file: ", exc[1]>>,
                                    !.exception = <<"FileNotFoundError">>]
            /\ UNCHANGED disk
    /\ pc' = "idle"
    /\ UNCHANGED <<tmp_bytes, ref, raised, analysis, uploaded, settings, clicked, file_path, file_name, ext, input_data,
                   progressVars, calls>>

\* a faulty variant of the button: the remote call without the progress bar
ButtonSkipsProgress ==
    /\ pc = "button"
    /\ stale_button' = FALSE
    /\ page' = [page EXCEPT !.button = TRUE]
    /\ pc' = IF clicked THEN "analyze" ELSE "cleanup"
    /\ UNCHANGED <<tmp_bytes, ref, raised, analysis, uploaded, settings, clicked,
                   file_path, file_name, ext, input_data, i, progress_bar, status_text,
                   disk, calls, removes, exc, trace>>

\* line 312: st.button draws the button and tells whether this run comes from a
\* press
Button ==
    /\ pc = "button"
    /\ stale_button' = FALSE
    /\ page' = [page EXCEPT !.button = TRUE]
    /\ pc' = IF clicked THEN "progress_new" ELSE "cleanup"
    /\ UNCHANGED <<tmp_bytes, ref, raised, analysis, uploaded, settings, clicked,
                   file_path, file_name, ext, input_data, i, progress_bar, status_text,
                   disk, calls, removes, exc, trace>>

\* line 231: analysis_progress starts, progress_bar = st.progress(0)
ProgressNew ==
    /\ pc = "progress_new"
    /\ i' = 0
    /\ progress_bar' = <<0>>
    /\ trace' = Append(trace, "ProgressSimulated")
    /\ pc' = "progress_placeholder"
    /\ UNCHANGED <<stale_button, tmp_bytes, ref, raised, analysis, uploaded, settings,
                   clicked, file_path, file_name, ext, input_data, status_text, disk,
                   page, calls, removes, exc>>

\* line 232: status_text = st.empty()
ProgressPlaceholder ==
    /\ pc = "progress_placeholder"
    /\ status_text' = Empty
    /\ pc' = "progress"
    /\ UNCHANGED <<stale_button, tmp_bytes, ref, raised, analysis, uploaded, settings,
                   clicked, file_path, file_name, ext, input_data, i, progress_bar,
                   disk, page, calls, removes, exc, trace>>

\* lines 234-235: the loop goes on, progress_bar.progress(i + 1)
ProgressBarStep ==
    /\ pc = "progress"
    /\ i < ProgressSteps
    /\ progress_bar' = <<i + 1>>
    /\ pc' = "progress_text"
    /\ UNCHANGED <<i, status_text>>
    /\ UNCHANGED <<stale_button, tmp_bytes, ref, raised, analysis, uploaded, settings, clicked,
                   file_path, file_name, ext, input_data, disk, page, calls, removes,
                   exc, trace>>

\* lines 236-244: status_text.text of the phase of iteration i, then the sleep
ProgressTextStep ==
    /\ pc = "progress_text"
    /\ status_text' = <<"text", StatusFor(i)>>
    /\ i' = i + 1
    /\ pc' = "progress"
    /\ UNCHANGED progress_bar
    /\ UNCHANGED <<stale_button, tmp_bytes, ref, raised, analysis, uploaded, settings, clicked,
                   file_path, file_name, ext, input_data, disk, page, calls, removes,
                   exc, trace>>

\* lines 246-247: the loop is over, status_text.success
ProgressComplete ==
    /\ pc = "progress"
    /\ i = ProgressSteps
    /\ status_text' = <<"success", "Analysis complete!">>
    /\ pc' = "progress_clear"
    /\ UNCHANGED <<i, progress_bar>>
    /\ UNCHANGED <<stale_button, tmp_bytes, ref, raised, analysis, uploaded, settings, clicked,
                   file_path, file_name, ext, input_data, disk, page, calls, removes,
                   exc, trace>>

\* line 248: status_text.empty()
ProgressClearStatus ==
    /\ pc = "progress_clear"
    /\ status_text' = Empty
    /\ pc' = "progress_clear_bar"
    /\ UNCHANGED <<i, progress_bar>>
    /\ UNCHANGED <<stale_button, tmp_bytes, ref, raised, analysis, uploaded, settings, clicked,
                   file_path, file_name, ext, input_data, disk, page, calls, removes,
                   exc, trace>>

\* line 249: progress_bar.empty(), and analysis_progress returns
ProgressClearBar ==
    /\ pc = "progress_clear_bar"
    /\ progress_bar' = Empty
    /\ pc' = "analyze"
    /\ UNCHANGED <<i, status_text>>
    /\ UNCHANGED <<stale_button, tmp_bytes, ref, raised, analysis, uploaded, settings, clicked,
                   file_path, file_name, ext, input_data, disk, page, calls, removes,
                   exc, trace>>

\* a faulty variant of the call: the depth setting reaches the prompt
GenerateArgsWithDepth(data, s) ==
    [prompt |-> base_prompt(job_description_arg(s)) \o <<s.analysis_depth>>,
     content |-> data]

\* the two arguments main() gives analyze_with_gemini (lines 329-332), as the
\* list analyze_with_gemini gives model.generate_content (line 142)
GenerateArgs(data, s) ==
    [prompt |-> base_prompt(job_description_arg(s)), content |-> data]

\* lines 329-332 and 102-142: the blocking call is sent
AnalyzeCall ==
    /\ pc = "analyze"
    /\ calls' = Append(calls, GenerateArgs(input_data, settings))
    /\ trace' = Append(trace, "AwaitingRemoteResponse")
    /\ pc' = "awaiting"
    /\ UNCHANGED <<stale_button, tmp_bytes, ref, raised, analysis, uploaded, settings, clicked, file_path, file_name, ext, input_data,
                   progressVars, disk, page, removes, exc>>

\* the element st.download_button draws for the text r
DownloadButton(r) ==
    [label |-> "Download Analysis Report", data |-> r,
     file_name |-> "resume_analysis_report.md", mime |-> "text/markdown"]

\* line 143 and line 329: the call returns and response.text is bound to analysis
RemoteReturn ==
    /\ pc = "awaiting"
    /\ \E r \in Responses : analysis' = <<r>>
    /\ pc' = "render"
    /\ UNCHANGED <<stale_button, tmp_bytes, ref, raised, uploaded, settings, clicked, file_path, file_name, ext, input_data,
                   progressVars, disk, page, calls, removes, exc, trace>>

\* line 333: st.markdown(analysis)
RenderMarkdown ==
    /\ pc = "render"
    /\ page' = [page EXCEPT !.analysis = analysis]
    /\ trace' = Append(trace, "Rendered")
    /\ pc' = "download"
    /\ UNCHANGED <<stale_button, tmp_bytes, ref, raised, analysis, uploaded, settings, clicked,
                   file_path, file_name, ext, input_data, progressVars, disk, calls,
                   removes, exc>>

\* lines 336-342: st.download_button(data=analysis, ...)
RenderDownload ==
    /\ pc = "download"
    /\ page' = [page EXCEPT !.download = <<DownloadButton(analysis[1])>>]
    /\ pc' = "plan"
    /\ UNCHANGED <<stale_button, tmp_bytes, ref, raised, analysis, uploaded, settings, clicked,
                   file_path, file_name, ext, input_data, progressVars, disk, calls,
                   removes, exc, trace>>

\* lines 329 and 142-143: the call, or reading response.text, raises, and the
\* except clause of line 343 takes the exception
RemoteRaise ==
    /\ pc = "awaiting"
    /\ \E e \in RemoteErrors : raised' = <<e>>
    /\ pc' = "remote_except"
    /\ UNCHANGED <<stale_button, tmp_bytes, ref, analysis, uploaded, settings, clicked,
                   file_path, file_name, ext, input_data, progressVars, disk, calls,
                   removes, exc, page, trace>>

\* line 344: st.error(f"Analysis error: {str(e)}")
RemoteExceptHandler ==
    /\ pc = "remote_except"
    /\ page' = [page EXCEPT !.error = <<"Analysis error: ", raised[1]>>]
    /\ trace' = Append(trace, "Errored")
    /\ pc' = "plan"
    /\ UNCHANGED <<stale_button, tmp_bytes, ref, analysis, uploaded, settings, clicked,
                   file_path, file_name, ext, input_data, progressVars, disk, calls,
                   removes, exc, raised>>

\* line 347: st.expander, the box of the action plan
ActionPlan ==
    /\ pc = "plan"
    /\ page' = [page EXCEPT !.plan = TRUE]
    /\ pc' = "plan_info"
    /\ UNCHANGED <<stale_button, tmp_bytes, ref, raised, analysis, uploaded, settings,
                   clicked, file_path, file_name, ext, input_data, i, progress_bar,
                   status_text, disk, calls, removes, exc, trace>>

\* lines 348-353: st.info, the next steps in the box
ActionPlanInfo ==
    /\ pc = "plan_info"
    /\ page' = [page EXCEPT !.plan_info = TRUE]
    /\ pc' = "cleanup"
    /\ UNCHANGED <<stale_button, tmp_bytes, ref, raised, analysis, uploaded, settings,
                   clicked, file_path, file_name, ext, input_data, i, progress_bar,
                   status_text, disk, calls, removes, exc, trace>>

\* line 355: os.remove(file_path), which raises FileNotFoundError on a missing path
Cleanup ==
    /\ stale_button' = FALSE
    /\ pc = "cleanup"
    /\ removes' = removes + 1
    /\ IF file_path \in disk
       THEN /\ disk' = Unlink(disk, file_path)
            /\ UNCHANGED page
       ELSE /\ page' = [page EXCEPT !.exception = <<"FileNotFoundError">>]
            /\ UNCHANGED disk
    /\ pc' = "idle"
    /\ UNCHANGED <<tmp_bytes, ref, raised, analysis, uploaded, settings, clicked, file_path, file_name, ext, input_data,
                   progressVars, calls, exc, trace>>

----------------------------------------------------------------------------

Next ==
    \/ UploadFile
    \/ ClearFile
    \/ SidebarInput
    \/ ClickAnalyze
    \/ Sidebar
    \/ UploadSectionFile
    \/ UploadSectionNone
    \/ Detect
    \/ Title
    \/ PreviewImage
    \/ ShowImage
    \/ PreviewPdf
    \/ PreviewDocx
    \/ DocxWarning
    \/ PreviewNoBranch
    \/ ExceptHandler
    \/ Button
    \/ ProgressNew
    \/ ProgressPlaceholder
    \/ ProgressBarStep
    \/ ProgressTextStep
    \/ ProgressComplete
    \/ ProgressClearStatus
    \/ ProgressClearBar
    \/ AnalyzeCall
    \/ RemoteReturn
    \/ RenderMarkdown
    \/ RenderDownload
    \/ RemoteRaise
    \/ RemoteExceptHandler
    \/ ActionPlan
    \/ ActionPlanInfo
    \/ Cleanup

Spec == Init /\ [][Next]_vars

----------------------------------------------------------------------------
(* Two interactions compared: the first specification lets the user change   *)
(* anything; this one fixes the file and the job description and lets the    *)
(* user change the other four settings only, keeping one finished interaction *)
(* made with the default values of those four for comparison.                *)

\* the four settings main() never reads
Others(s) ==
    [analysis_depth |-> s.analysis_depth, ats_check |-> s.ats_check,
     bias_check |-> s.bias_check, job_title |-> s.job_title]

\* what the remote service did in the finished interaction
RemoteOutcome ==
    IF analysis # <<>> THEN <<"returned", analysis[1]>>
    ELSE IF page.error # <<>> /\ page.error[1] = "Analysis error: "
         THEN <<"raised", page.error[2]>>
         ELSE <<>>

InitPair ==
    /\ \E f \in Files : uploaded = <<f>>
    /\ \E d \in JobDescriptions :
        settings = [DefaultSettings EXCEPT !.job_description = d]
    /\ clicked = FALSE
    /\ pc = "sidebar"
    /\ file_path = None
    /\ file_name = None
    /\ ext = None
    /\ input_data = NoData
    /\ i = 0
    /\ progress_bar = Empty
    /\ status_text = Empty
    /\ disk = {}
    /\ tmp_bytes = <<>>
    /\ page = BlankPage
    /\ stale_button = FALSE
    /\ calls = <<>>
    /\ removes = 0
    /\ exc = <<>>
    /\ analysis = <<>>
    /\ raised = <<>>
    /\ trace = <<"Idle">>
    /\ ref = <<>>

\* the user changes the depth, a toggle or the job title
SidebarOtherInput ==
    /\ SidebarInput
    /\ settings'.job_description = settings.job_description

\* the finished interaction is kept for comparison
Remember ==
    /\ pc = "idle"
    /\ Others(settings) = Others(DefaultSettings)
    /\ ref' = << [uploaded |-> uploaded, job_description |-> settings.job_description,
                  clicked |-> clicked, remote |-> RemoteOutcome,
                  calls |-> calls, trace |-> trace] >>
    /\ UNCHANGED <<uploaded, settings, clicked, pc, file_path, file_name, ext, input_data,
                   i, progress_bar, status_text, disk, tmp_bytes, page, stale_button,
                   calls, removes, exc, analysis, raised, trace>>

NextPair ==
    \/ SidebarOtherInput
    \/ ClickAnalyze
    \/ Remember
    \/ Sidebar
    \/ UploadSectionFile
    \/ Detect
    \/ Title
    \/ PreviewImage
    \/ ShowImage
    \/ PreviewPdf
    \/ PreviewDocx
    \/ DocxWarning
    \/ PreviewNoBranch
    \/ ExceptHandler
    \/ Button
    \/ ProgressNew
    \/ ProgressPlaceholder
    \/ ProgressBarStep
    \/ ProgressTextStep
    \/ ProgressComplete
    \/ ProgressClearStatus
    \/ ProgressClearBar
    \/ AnalyzeCall
    \/ RemoteReturn
    \/ RenderMarkdown
    \/ RenderDownload
    \/ RemoteRaise
    \/ RemoteExceptHandler
    \/ ActionPlan
    \/ ActionPlanInfo
    \/ Cleanup

SpecPair == InitPair /\ [][NextPair]_vars

----------------------------------------------------------------------------
(* Properties *)

\* positions of main() between the creation of the temporary file and its removal
InUse ==
    {"detect", "title", "extract", "show_image", "docx_warning", "except", "button",
     "progress_new", "progress_placeholder", "progress", "progress_text",
     "progress_clear", "progress_clear_bar", "analyze", "awaiting", "render",
     "download", "remote_except", "plan", "plan_info", "cleanup"}

ExtractionRaised == page.error # <<>> /\ page.error[1] = "Error processing file: "

RemoteRaised == page.error # <<>> /\ page.error[1] = "Analysis error: "

\* C1: when a run of main() has ended no temporary file is on disk, whatever the
\* outcome of the run, so the only temporary file there can be is the one of the
\* run in progress.
C1_TempFileRemoved ==
    /\ pc = "idle" => disk = {}
    /\ disk \subseteq {file_path}

\* C2: an interaction whose file has a detected type outside pdf, docx, jpg, jpeg,
\* png, or whose extraction raised, reports an error and never invokes the remote
\* call.
C2_UnsupportedReportsAndNeverCalls ==
    (ext # None /\ (ext \notin UploaderTypes \/ ExtractionRaised \/ exc # <<>>)) =>
        /\ calls = <<>>
        /\ pc = "idle" => page.error # <<>>

\* the sequences of states an interaction may have gone through
AllowedTraces ==
    { <<"Idle">>,
      <<"Idle", "Previewing">>,
      <<"Idle", "Previewing", "Errored">>,
      <<"Idle", "Previewing", "ProgressSimulated">>,
      <<"Idle", "Previewing", "ProgressSimulated", "AwaitingRemoteResponse">>,
      <<"Idle", "Previewing", "ProgressSimulated", "AwaitingRemoteResponse", "Rendered">>,
      <<"Idle", "Previewing", "ProgressSimulated", "AwaitingRemoteResponse", "Errored">> }

\* C3: an interaction goes Idle, Previewing, Progress-Simulated, Awaiting-Remote-
\* Response, Rendered or Errored, in that order; an extraction error ends it before
\* the progress bar has started; the remote call is sent, and Rendered or Errored
\* reached, only when the progress loop has done all its steps and cleared its bar.
C3_StateMachineOrder ==
    /\ trace \in AllowedTraces
    /\ (ExtractionRaised \/ exc # <<>>) =>
          /\ i = 0 /\ progress_bar = Empty /\ calls = <<>>
          /\ "ProgressSimulated" \notin {trace[k] : k \in 1..Len(trace)}
    /\ calls # <<>> =>
          /\ i = ProgressSteps /\ progress_bar = Empty /\ status_text = Empty
          /\ Len(trace) >= 4
    /\ Len(trace) >= 4 => i = ProgressSteps /\ calls # <<>>
    /\ pc \in {"progress_placeholder", "progress", "progress_text", "progress_clear",
              "progress_clear_bar"} =>
          calls = <<>> /\ Len(trace) = 3

C3_Witness ==
    /\ trace = <<"Idle", "Previewing", "ProgressSimulated", "AwaitingRemoteResponse",
                 "Rendered">>
    /\ i = ProgressSteps
    /\ Len(calls) = 1

\* the call is sent at most once, and a run whose call raised shows no analysis,
\* no download control and no error but that of the call
C4_NoRetryNoPartial ==
    /\ Len(calls) <= 1
    /\ page.exception = <<>>
    /\ raised # <<>> =>
          /\ analysis = <<>>
          /\ page.analysis = <<>>
          /\ page.download = <<>>
          /\ page.error \in {<<>>, <<"Analysis error: ", raised[1]>>}
    /\ RemoteRaised => raised # <<>> /\ page.error[2] = raised[1]

\* main() is left, by its end or by a stop, with the failure of its call shown
C4_ShownWhenLeft ==
    (raised # <<>> /\ raised' = <<>>) => page.error = <<"Analysis error: ", raised[1]>>

\* C4: the remote call is sent at most once per interaction; when it raises, the
\* failure is caught and shown as an error message, and neither an analysis nor a
\* download control is on the page.
C4_RemoteFailureShownNoRetry == [][C4_NoRetryNoPartial /\ C4_ShownWhenLeft]_vars

\* C5: the prompt of every remote call is the base prompt alone when the job
\* description of the sidebar is empty, and otherwise the base prompt, then the
\* job-description instruction, then the job description.
C5_PromptComposition ==
    \A k \in 1..Len(calls) :
        IF settings.job_description = <<>>
        THEN calls[k].prompt = <<BasePromptText>>
        ELSE calls[k].prompt = <<BasePromptText, JobSuffixText>> \o settings.job_description

C5_Witness ==
    /\ Len(calls) = 1
    /\ settings.job_description = <<"Backend engineer">>
    /\ calls[1].prompt = <<BasePromptText, JobSuffixText, "Backend engineer">>

\* a download on the page is named resume_analysis_report.md and holds the text the
\* remote call returned, which is the text rendered; a rendered text is the returned
\* one; a download is offered only when the remote call returned
C6_OfferedIsRendered ==
    /\ page.download # <<>> =>
          /\ analysis # <<>>
          /\ page.analysis = analysis
          /\ page.download = <<DownloadButton(analysis[1])>>
          /\ page.download[1].file_name = "resume_analysis_report.md"
          /\ Len(calls) = 1
          /\ raised = <<>>
    /\ page.analysis # <<>> => page.analysis = analysis

\* main() is left, by its end or by a stop, with the returned text rendered and
\* offered for download
C6_ShownWhenLeft ==
    (analysis # <<>> /\ analysis' = <<>>) =>
        /\ page.analysis = analysis
        /\ page.download = <<DownloadButton(analysis[1])>>

\* C6: an interaction whose remote call returned a text r renders exactly r and
\* offers a download named resume_analysis_report.md whose content is exactly r; a
\* download is offered only in interactions whose remote call succeeded.
C6_RenderedAndOffered == [][C6_OfferedIsRendered /\ C6_ShownWhenLeft]_vars

\* C7: an interaction with the same file, the same job description, the same
\* button press and the same answer of the remote service as the kept one, whatever
\* its depth, toggles and job title, sends the same prompt and content and goes
\* through the same states.
C7_OtherSettingsDoNotInfluence ==
    ( /\ pc = "idle"
      /\ ref # <<>>
      /\ ref[1].uploaded = uploaded
      /\ ref[1].job_description = settings.job_description
      /\ ref[1].clicked = clicked
      /\ ref[1].remote = RemoteOutcome ) =>
        /\ ref[1].calls = calls
        /\ ref[1].trace = trace

C7_Witness ==
    /\ pc = "idle"
    /\ ref # <<>>
    /\ ref[1].clicked /\ clicked
    /\ ref[1].remote = RemoteOutcome
    /\ Len(calls) = 1 /\ ref[1].calls = calls
    /\ settings.analysis_depth = "Comprehensive"
    /\ ~settings.ats_check
    /\ settings.bias_check
    /\ settings.job_title = <<"SRE">>

\* the extension of the uploaded name, lower-cased
RawExtension == Lower(SplitLast(file_name))

\* C8 as stated: the detected type is the sniffed type when there is one, otherwise
\* the lower-cased extension, and in every case one of pdf, docx, jpg, jpeg, png or
\* the lower-cased extension of an inconclusive sniffing.
C8_AsStated ==
    ext # None =>
        /\ uploaded[1].magic # None => ext = uploaded[1].magic
        /\ uploaded[1].magic = None => ext = RawExtension
        /\ \/ ext \in UploaderTypes
           \/ uploaded[1].magic = None /\ ext = RawExtension

\* C8 amended: the detected type is the sniffed type when there is one, whatever
\* type that is, and otherwise the lower-cased extension of the uploaded name,
\* which is one of pdf, docx, jpg, jpeg, png.
C8_SniffedOrExtension ==
    ext # None =>
        /\ uploaded[1].magic # None => ext = uploaded[1].magic
        /\ uploaded[1].magic = None => ext = RawExtension /\ ext \in UploaderTypes

C8_Witness ==
    /\ ext = DOCX
    /\ uploaded[1].magic = None
    /\ SplitLast(file_path) = <<"D","O","C","X">>

\* C9: the content of every remote call is an image exactly when the detected type
\* is jpg, jpeg or png, and an extracted text exactly when it is pdf or docx.
C9_ContentIsExtracted ==
    \A k \in 1..Len(calls) :
        /\ calls[k].content \in {ImageData, PdfText, DocxText}
        /\ calls[k].content.kind = "image" <=> ext \in ImageTypes
        /\ calls[k].content.kind = "text" <=> ext \in {PDF, DOCX}

\* the file is in use, and nothing has removed it yet
C10_UsedWhileThere ==
    /\ removes <= 1
    /\ page.exception = <<>>
    /\ pc \in InUse => removes = 0 /\ file_path \in disk
    /\ file_path = None => removes = 0

\* main() is left, by its end or by a stop, after one os.remove of its file
C10_LeftAfterOneRemove ==
    (file_path # None /\ file_path' = None) => removes = 1 /\ file_path \notin disk

\* C10: every run of main() that made a temporary file calls os.remove on it
\* exactly once, never on a path already removed, and from type detection to the
\* end of the remote call the file is on disk.
C10_RemovedOnceAfterUse == [][C10_UsedWhileThere /\ C10_LeftAfterOneRemove]_vars

====
